---- MODULE Spec2Model ----
(***************************************************************************)
(* The training-job lifecycle of the backend: the in-memory job store      *)
(* (backend/job_store.py), the background training task and the status     *)
(* endpoint (backend/routers/training.py) and the upload/registration      *)
(* endpoint (backend/routers/models.py); and, each on its own, the store   *)
(* functions (StoreSpec), the inference endpoint of                       *)
(* backend/routers/inference.py (InferenceSpec), several jobs side by side *)
(* (JobsSpec) and the nonce and verify endpoints of                        *)
(* backend/routers/auth.py (AuthSpec).                                     *)
(*                                                                         *)
(* Scheduling.  start_training, get_training_status and                    *)
(* upload_and_register_model are `async def` endpoints without any await:  *)
(* each runs to completion on the event loop, so each is one action.       *)
(* run_training_job is a plain `def` handed to BackgroundTasks, which runs *)
(* it on a thread-pool thread: its steps interleave with the endpoints,    *)
(* and so do the individual attribute writes of its update_job_status      *)
(* calls (job_store.py takes no lock).                                     *)
(***************************************************************************)
EXTENDS Integers, Sequences, FiniteSets, TLC

VARIABLES
    training_jobs,  \* job_store._training_jobs: job_id -> TrainingStatusResponse
    pc,             \* position of run_training_job for each job
    pending,        \* attribute writes of the worker's update_job_status call in progress
    temp_dir,       \* run_training_job's local temp_dir
    task_args,      \* the arguments start_training handed to the background task
    disk,           \* the paths that exist in temporary storage
    calls,          \* per job, the calls made to the payment verifier, Blob Store, Trainer and Ledger
    fee,            \* config.TRAINING_SERVICE_FEE
    now,            \* the clock: what datetime.now(timezone.utc) returns
    inference_fee,  \* config.INFERENCE_SERVICE_FEE
    model_cache,    \* the keys of inference._model_cache
    model_info_cache, \* the keys of inference._model_info_cache
    inference_calls,  \* the calls the last predict request made to the payment
                      \* verifier, the Blob Store and the Ledger
    nonce_store,    \* auth._nonce_store: nonce -> the time it was issued
    verify_reqs,    \* per thread of the pool, the verify request it is serving
    issued,         \* per nonce the nonce endpoint issued, the tokens issued for it
    resp            \* the response the event loop is returning (for a call made on the
                    \* store alone, what the call is returning), NoResp when it is idle

vars == <<training_jobs, pc, pending, temp_dir, task_args, disk, calls, fee, now, resp,
          inference_fee, model_cache, model_info_cache, inference_calls,
          nonce_store, verify_reqs, issued>>

-----------------------------------------------------------------------------
(* Bounds *)

MaxJobs == 1

\* The nonces the nonce endpoint issues and the verify requests served at
\* the same time.
MaxNonces == 2

MaxVerify == 2

JobIds == 1..MaxJobs

\* The records the store holds when it is looked at on its own.
MaxStored == 2

\* The clock readings: the clock stops at MaxTime.
MaxTime == 1

Times == 0..MaxTime

-----------------------------------------------------------------------------
(* Values *)

None == "None"

\* Wallet addresses as the JWT subject carries them: the first two are the
\* same address in checksum and in lower case.
Users == {"0xAbC1", "0xabc1", "0xDeF2"}

\* str.lower() on the addresses above.
Lower(s) ==
    CASE s = "0xAbC1" -> "0xabc1"
      [] s = "0xDeF2" -> "0xdef2"
      [] OTHER -> s

\* The address that starts jobs.  The other users only query and publish.
Owners == {"0xAbC1"}

DatasetCids == {"ds1"}

TRAINING_SERVICE_FEE == 1

INFERENCE_SERVICE_FEE == 2

Statuses == {"PENDING", "VERIFYING_PAYMENT", "DOWNLOADING", "TRAINING",
             "TRAINING_COMPLETE", "COMPLETED", "UPLOAD_FAILED", "FAILED"}

\* tempfile.mkdtemp(): a fresh directory for each call
TempDir(j) == "/tmp/job" \o ToString(j)

DatasetPath(j, ds) == TempDir(j) \o "/" \o ds \o "_dataset.csv"

ModelPath(j) == TempDir(j) \o "/trained_model.joblib"

InfoPath(j) == TempDir(j) \o "/model_info.json"

\* The content identifier the Blob Store returns for an uploaded file.
Cid(path) == "Qm:" \o path

\* The transaction hash of a registration.
TxHash(model_cid) == "0xtx:" \o model_cid

Accuracy == "0.9"

-----------------------------------------------------------------------------
(* backend/job_store.py *)

JobExists(job_id) == job_id \in DOMAIN training_jobs

\* The record created with the owner's address in lower case.
NewJob_lowercased(job_id, dataset_cid, owner_address) ==
    [job_id |-> job_id, status |-> "PENDING", message |-> None,
     dataset_cid |-> dataset_cid, owner_address |-> Lower(owner_address),
     model_cid |-> None, model_info_cid |-> None, accuracy |-> None,
     fvm_tx_hash |-> None, created_at |-> now, updated_at |-> now,
     temp_model_path |-> None, temp_info_path |-> None]

\* TrainingStatusResponse(job_id, status="PENDING", dataset_cid, owner_address, ...)
\* with created_at = updated_at = now (training.py lines 182-190).
NewJob(job_id, dataset_cid, owner_address) ==
    [job_id |-> job_id, status |-> "PENDING", message |-> None,
     dataset_cid |-> dataset_cid, owner_address |-> owner_address,
     model_cid |-> None, model_info_cid |-> None, accuracy |-> None,
     fvm_tx_hash |-> None, created_at |-> now, updated_at |-> now,
     temp_model_path |-> None, temp_info_path |-> None]

\* The lookup inserting an empty record for an unknown id (a defaulting dict).
StoreAfterGet_inserting(store, job_id) ==
    IF job_id = Len(store) + 1
    THEN Append(store, NewJob(job_id, None, None))
    ELSE store

\* get_job(job_id) is _training_jobs.get(job_id): the store after the lookup
\* is the store before it.
StoreAfterGet(store, job_id) == store

\* The store keeping a single record: every key maps to the record stored last.
store_job_shared(store, job) ==
    IF job.job_id = 0 THEN store
    ELSE [k \in DOMAIN store \cup {job.job_id} |-> job]

\* store_job(job): a record without job_id is refused; any other record is
\* stored under its job_id, replacing what was stored there.
store_job(store, job) ==
    IF job.job_id = 0 THEN store
    ELSE IF job.job_id \in DOMAIN store THEN [store EXCEPT ![job.job_id] = job]
    ELSE Append(store, job)

\* The attribute set without asking hasattr: the record gains the field.
ApplyWrite_unguarded(job, w) ==
    [f \in DOMAIN job \cup {w[1]} |-> IF f = w[1] THEN w[2] ELSE job[f]]

\* One attribute write of update_job_status: w = <<name, value>>; a name that
\* is no attribute of the job is skipped (hasattr).
ApplyWrite(job, w) ==
    IF w[1] \in DOMAIN job THEN [job EXCEPT ![w[1]] = w[2]] ELSE job

\* The attribute writes of update_job_status(job_id, status, message, **kwargs),
\* in the order the code makes them (lines 32, 33, 34, 36-38).  The clock is
\* read when the call starts.
UpdateWrites(status, message, kwargs) ==
    <<  <<"status", status>>, <<"message", message>>, <<"updated_at", now>>  >> \o kwargs

\* The steps of an update_job_status call made by a thread: the attribute
\* writes, then store_job(job) (line 42).
UpdateSteps(status, message, kwargs) ==
    UpdateWrites(status, message, kwargs)
        \o <<  <<"store_job", UpdateWrites(status, message, kwargs)>>  >>

RECURSIVE ApplyWrites(_, _)
ApplyWrites(job, ws) ==
    IF ws = <<>> THEN job ELSE ApplyWrites(ApplyWrite(job, Head(ws)), Tail(ws))

\* update_job_status run to completion (as an endpoint on the event loop runs it).
update_job_status(job, status, message, kwargs) ==
    ApplyWrites(job, UpdateWrites(status, message, kwargs))

\* The store after update_job_status creating a record for an unknown job_id.
StoreAfterUpdate_upserting(store, job_id, status, message, kwargs) ==
    IF job_id \in DOMAIN store
    THEN store_job(store, update_job_status(store[job_id], status, message, kwargs))
    ELSE store_job(store, update_job_status(NewJob(job_id, None, None), status, message, kwargs))

\* The store after update_job_status(job_id, status, message, **kwargs):
\* lines 30-42 for a job that get_job finds, lines 44-45 (a warning) otherwise.
StoreAfterUpdate(store, job_id, status, message, kwargs) ==
    IF job_id \in DOMAIN store
    THEN store_job(store, update_job_status(store[job_id], status, message, kwargs))
    ELSE store

\* How update_job_status ends: an unknown job_id (line 45) and an unknown
\* attribute (line 40) are logged, and every path returns.
UpdateOutcome(store, job_id, kwargs) == "returned"

-----------------------------------------------------------------------------
(* External collaborators *)

VerifyOutcomes == {"true", "false", "raise"}

DownloadOutcomes == {"ok", "fail", "partial"}

TrainOutcomes == {"ok", "fail", "dump_raises"}

UploadOutcomes == {"ok", "bad_response", "error"}

LedgerOutcomes == {"ok", "not_connected", "receipt_failed", "tx_error"}

\* fvm_service.verify_payment(tx_hash, expected_payer, expected_amount,
\* expected_service_type, expected_nonce): true, false, or an error.
verify_payment(outcome) == outcome

\* lighthouse_service.upload_file: the CID, or None when the file is missing,
\* the response is malformed or the client raises.
upload_file(file_path, d, outcome) ==
    IF file_path \notin d THEN None
    ELSE IF outcome = "ok" THEN Cid(file_path)
    ELSE None

\* fvm_service.register_asset_provenance: the transaction hash when the
\* receipt's status is 1; None when not connected, when the primary CID is
\* empty, when the receipt reports failure and on every exception.
register_asset_provenance(owner_address, asset_type, name, dataset_cid, model_cid, metadata_cid, outcome) ==
    IF outcome = "not_connected" THEN None
    ELSE IF asset_type \notin {"Dataset", "Model"} THEN None
    ELSE IF (IF asset_type = "Dataset" THEN dataset_cid ELSE model_cid) \in {None, ""} THEN None
    ELSE IF outcome = "ok" THEN TxHash(model_cid)
    ELSE None

Call(fn, args, ret) == [fn |-> fn, args |-> args, ret |-> ret]

-----------------------------------------------------------------------------
(* Initial state: an empty store, no task, a configured or unset fee. *)

\* auth.py as imported: no nonce stored, no verify request in progress.
IdleRequest == [pc |-> "idle", nonce |-> 0, domain |-> "ok", code |-> 0, detail |-> None]

AuthIdle ==
    /\ nonce_store = <<>>
    /\ verify_reqs = [t \in 1..MaxVerify |-> IdleRequest]
    /\ issued = <<>>

NoResp == [op |-> "none", job_id |-> 0, user |-> None, code |-> 0, body |-> [detail |-> None]]

Init ==
    /\ training_jobs = <<>>
    /\ pc = [j \in JobIds |-> "none"]
    /\ pending = [j \in JobIds |-> <<>>]
    /\ temp_dir = [j \in JobIds |-> None]
    /\ task_args = [j \in JobIds |-> [dataset_cid |-> None, owner_address |-> None]]
    /\ disk = {}
    /\ calls = [j \in JobIds |-> <<>>]
    /\ fee \in {0, TRAINING_SERVICE_FEE}
    /\ now = 0
    /\ resp = NoResp
    /\ inference_fee = INFERENCE_SERVICE_FEE
    /\ model_cache = {}
    /\ model_info_cache = {}
    /\ inference_calls = <<>>
    /\ AuthIdle

-----------------------------------------------------------------------------
(* backend/routers/training.py: start_training *)

\* What train_request.paymentTxHash evaluates to (line 204).  TrainRequest as
\* data_models.py declares it has no such field, and reading it raises
\* AttributeError.
DeclaredPaymentAttr == "AttributeError"

\* The payment reference of a request that carries one.
RequestPaymentTx == "0xpaytx"

PaymentAttrs == {DeclaredPaymentAttr, RequestPaymentTx}

\* The record is stored (line 191) before the payment fields are read (line
\* 204): when reading them raises, no task is added and the request ends in
\* the framework's 500.
start_training(current_user_address, dataset_cid, payment) ==
    LET job_id == Len(training_jobs) + 1 IN
    /\ resp = NoResp
    /\ job_id \in DOMAIN pc
    /\ training_jobs' = store_job(training_jobs, NewJob(job_id, dataset_cid, current_user_address))
    /\ IF payment = "AttributeError"
       THEN /\ resp' = [op |-> "start", job_id |-> job_id, user |-> current_user_address,
                        code |-> 500, body |-> [detail |-> "Internal Server Error"]]
            /\ UNCHANGED <<pc, task_args>>
       ELSE /\ pc' = [pc EXCEPT ![job_id] = "scheduled"]
            /\ task_args' = [task_args EXCEPT ![job_id] =
                                [dataset_cid |-> dataset_cid, owner_address |-> current_user_address]]
            /\ resp' = [op |-> "start", job_id |-> job_id, user |-> current_user_address,
                        code |-> 202, body |-> [dataset_cid |-> dataset_cid]]
    /\ UNCHANGED <<pending, temp_dir, disk, calls, fee, now, inference_fee, model_cache, model_info_cache, inference_calls, nonce_store, verify_reqs, issued>>

-----------------------------------------------------------------------------
(* backend/routers/training.py: run_training_job, on its own thread *)

UnexpectedTrainingError == "An unexpected error occurred during training"

\* Line 37: the first report of the task.
VerifyingPaymentReport ==
    UpdateSteps("VERIFYING_PAYMENT", "Verifying service fee payment...", <<>>)

\* The DOWNLOADING report left out: the task reports TRAINING at once.
DownloadingReport_skipped == UpdateSteps("TRAINING", None, <<>>)

\* Line 73
DownloadingReport == UpdateSteps("DOWNLOADING", None, <<>>)

\* Line 81
TrainingReport == UpdateSteps("TRAINING", None, <<>>)

\* The task publishing the model itself: the report carries a model CID.
TrainingCompleteReport_publishing(j) ==
    UpdateSteps("TRAINING_COMPLETE",
                 "Model training finished. Ready for upload and registration.",
                 <<  <<"accuracy", Accuracy>>,
                     <<"model_cid", Cid(ModelPath(j))>>,
                     <<"temp_model_path", ModelPath(j)>>,
                     <<"temp_info_path", InfoPath(j)>>  >>)

\* Lines 111-118: the report that hands the job to the upload endpoint.
TrainingCompleteReport(j) ==
    UpdateSteps("TRAINING_COMPLETE",
                 "Model training finished. Ready for upload and registration.",
                 <<  <<"accuracy", Accuracy>>,
                     <<"temp_model_path", ModelPath(j)>>,
                     <<"temp_info_path", InfoPath(j)>>  >>)

\* The failure only logged: no report reaches the store.
FailedReport_onlyLogged(message) == <<>>

\* Lines 49, 62, 77, 91 and 125: the reports of a failure.
FailedReport(message) == UpdateSteps("FAILED", message, <<>>)

\* The task storing a record of its own: its report applied once more.
StoredByWorker_copy(job, writes) == ApplyWrites(job, writes)

\* What line 42 stores: `job` is the object get_job returned (line 30), the
\* one the store holds, with everything any thread has written to it.
StoredByWorker(job, writes) == job

\* One step of the update_job_status call in progress: an attribute write, or
\* the closing store_job.
WorkerWrite(j) ==
    /\ pending[j] # <<>>
    /\ training_jobs' =
          IF Head(pending[j])[1] = "store_job"
          THEN store_job(training_jobs, StoredByWorker(training_jobs[j], Head(pending[j])[2]))
          ELSE [training_jobs EXCEPT ![j] = ApplyWrite(@, Head(pending[j]))]
    /\ pending' = [pending EXCEPT ![j] = Tail(@)]
    /\ UNCHANGED <<pc, temp_dir, task_args, disk, calls, fee, now, resp, inference_fee, model_cache, model_info_cache, inference_calls, nonce_store, verify_reqs, issued>>

\* Lines 35-42: the task starts and reports VERIFYING_PAYMENT.  BackgroundTasks
\* starts it once the 202 response of start_training has been sent.
WorkerBegin(j) ==
    /\ pc[j] = "scheduled"
    /\ ~(resp.op = "start" /\ resp.job_id = j)
    /\ pending' = [pending EXCEPT ![j] = VerifyingPaymentReport]
    /\ pc' = [pc EXCEPT ![j] = "verify"]
    /\ UNCHANGED <<training_jobs, temp_dir, task_args, disk, calls, fee, now, resp, inference_fee, model_cache, model_info_cache, inference_calls, nonce_store, verify_reqs, issued>>

\* The result of the verifier accepted unless it raised.
PaymentVerified_unchecked(result) == result # "raise"

\* Line 60: the pipeline goes on only when the verifier returned true.
PaymentVerified(result) == result = "true"

\* Lines 44-73: the fee check, the payment verification, mkdtemp and the
\* DOWNLOADING report.
WorkerVerify(j, outcome) ==
    /\ pc[j] = "verify"
    /\ pending[j] = <<>>
    /\ IF fee = 0
       THEN /\ pending' = [pending EXCEPT ![j] = FailedReport("Service configuration error.")]
            /\ pc' = [pc EXCEPT ![j] = "finally"]
            /\ UNCHANGED <<temp_dir, calls>>
       ELSE /\ calls' = [calls EXCEPT ![j] =
                            Append(@, Call("verify_payment",
                                           <<task_args[j].owner_address, "TRAINING">>, outcome))]
            /\ IF PaymentVerified(verify_payment(outcome))
               THEN /\ temp_dir' = [temp_dir EXCEPT ![j] = TempDir(j)]
                    /\ pending' = [pending EXCEPT ![j] = DownloadingReport]
                    /\ pc' = [pc EXCEPT ![j] = "download"]
               ELSE /\ pending' = [pending EXCEPT ![j] =
                                      IF verify_payment(outcome) = "false"
                                      THEN FailedReport("Service fee payment verification failed.")
                                      ELSE FailedReport(UnexpectedTrainingError)]
                    /\ pc' = [pc EXCEPT ![j] = "finally"]
                    /\ UNCHANGED temp_dir
    /\ UNCHANGED <<training_jobs, task_args, disk, fee, now, resp, inference_fee, model_cache, model_info_cache, inference_calls, nonce_store, verify_reqs, issued>>

\* The result of the download not looked at.
DownloadSucceeded_ignored(result) == TRUE

\* Line 75: `if not lighthouse_service.download_file(...)`.
DownloadSucceeded(result) == result = "ok"

\* Lines 74-81: the dataset download and the TRAINING report.  A failed
\* download may leave a partly written file.
WorkerDownload(j, outcome) ==
    LET path == DatasetPath(j, task_args[j].dataset_cid) IN
    /\ pc[j] = "download"
    /\ pending[j] = <<>>
    /\ calls' = [calls EXCEPT ![j] =
                    Append(@, Call("download_file", <<task_args[j].dataset_cid, path>>, outcome))]
    /\ disk' = IF outcome \in {"ok", "partial"} THEN disk \cup {path} ELSE disk
    /\ IF DownloadSucceeded(outcome)
       THEN /\ pending' = [pending EXCEPT ![j] = TrainingReport]
            /\ pc' = [pc EXCEPT ![j] = "train"]
       ELSE /\ pending' = [pending EXCEPT ![j] =
                              FailedReport("Failed to download dataset from storage.")]
            /\ pc' = [pc EXCEPT ![j] = "finally"]
    /\ UNCHANGED <<training_jobs, temp_dir, task_args, fee, now, resp, inference_fee, model_cache, model_info_cache, inference_calls, nonce_store, verify_reqs, issued>>

\* Lines 82-119: training, the metadata rewrite and the TRAINING_COMPLETE
\* report with accuracy and the two staged paths.
WorkerTrain(j, outcome) ==
    /\ pc[j] = "train"
    /\ pending[j] = <<>>
    /\ calls' = [calls EXCEPT ![j] =
                    Append(@, Call("train_model_on_dataset",
                                   <<DatasetPath(j, task_args[j].dataset_cid), temp_dir[j]>>, outcome))]
    /\ disk' = IF outcome = "fail" THEN disk ELSE disk \cup {ModelPath(j), InfoPath(j)}
    /\ pending' = [pending EXCEPT ![j] =
          CASE outcome = "ok" -> TrainingCompleteReport(j)
            [] outcome = "fail" -> FailedReport("Model training process failed.")
            [] OTHER -> FailedReport(UnexpectedTrainingError)]
    /\ pc' = [pc EXCEPT ![j] = "finally"]
    /\ UNCHANGED <<training_jobs, temp_dir, task_args, fee, now, resp, inference_fee, model_cache, model_info_cache, inference_calls, nonce_store, verify_reqs, issued>>

\* The whole temporary directory removed (shutil.rmtree).
CleanedUp_rmtree(j) ==
    {DatasetPath(j, task_args[j].dataset_cid), ModelPath(j), InfoPath(j)}

\* Lines 136-139: the path the finally block removes.
CleanedUp(j) == {DatasetPath(j, task_args[j].dataset_cid)}

\* Lines 131-142: the finally block removes the downloaded dataset only.
WorkerFinally(j) ==
    /\ pc[j] = "finally"
    /\ pending[j] = <<>>
    /\ disk' = IF temp_dir[j] # None
               THEN disk \ CleanedUp(j)
               ELSE disk
    /\ pc' = [pc EXCEPT ![j] = "done"]
    /\ UNCHANGED <<training_jobs, pending, temp_dir, task_args, calls, fee, now, resp, inference_fee, model_cache, model_info_cache, inference_calls, nonce_store, verify_reqs, issued>>

-----------------------------------------------------------------------------
(* backend/routers/training.py: get_training_status *)

get_training_status(job_id, current_user_address) ==
    /\ resp = NoResp
    /\ resp' =
          IF ~JobExists(job_id)
          THEN [op |-> "status", job_id |-> job_id, user |-> current_user_address, code |-> 404,
                body |-> [detail |-> "Training job not found."]]
          ELSE IF training_jobs[job_id].owner_address # current_user_address
          THEN [op |-> "status", job_id |-> job_id, user |-> current_user_address, code |-> 401,
                body |-> [detail |-> "Not authorized to view this training job status."]]
          ELSE [op |-> "status", job_id |-> job_id, user |-> current_user_address, code |-> 200,
                body |-> training_jobs[job_id]]
    /\ training_jobs' = StoreAfterGet(training_jobs, job_id)
    /\ UNCHANGED <<pc, pending, temp_dir, task_args, disk, calls, fee, now, inference_fee, model_cache, model_info_cache, inference_calls, nonce_store, verify_reqs, issued>>

-----------------------------------------------------------------------------
(* backend/routers/models.py: upload_and_register_model *)

UnexpectedUploadError == "An unexpected error occurred during upload/registration"

\* The ownership check left out.
IsJobOwner_unchecked(job, current_user_address) == TRUE

\* Line 62: the ownership check of the upload endpoint.
IsJobOwner(job, current_user_address) ==
    Lower(job.owner_address) = Lower(current_user_address)

\* The status check left out.
ReadyForUpload_unchecked(job) == TRUE

\* The status check accepting a failed job for a retry.
ReadyForUpload_orFailed(job) == job.status \in {"TRAINING_COMPLETE", "FAILED"}

\* Line 66: the status the upload endpoint requires.
ReadyForUpload(job) == job.status = "TRAINING_COMPLETE"

\* Lines 70-74: the staged paths are recorded and both files exist.
HasTempPaths(job) == job.temp_model_path # None /\ job.temp_info_path # None

StagedFilesExist(job, d) == job.temp_model_path \in d /\ job.temp_info_path \in d

\* Line 77: the update made when a staged file is missing.
MissingFilesUpdate(job) ==
    update_job_status(job, "FAILED", "Required temporary files for upload were missing.", <<>>)

\* Every exception counted as a failed upload.
DefaultFinalStatus_uploadFailed == "UPLOAD_FAILED"

\* The outcome preset to success.
DefaultFinalStatus_completed == "COMPLETED"

\* Line 83: the outcome unless a later line overrides it.
DefaultFinalStatus == "FAILED"

\* The HTTPException arm left out: a failed upload keeps the default outcome.
UploadFailedStatus_default == "FAILED"

\* Lines 131-132: the outcome when an upload fails (HTTPException).
UploadFailedStatus == "UPLOAD_FAILED"

\* A failed registration treated as fatal.
RegistrationFailedStatus_fatal == "FAILED"

\* Lines 121-125: the outcome when both uploads succeeded and the
\* registration returned no transaction hash.
RegistrationFailedStatus == "COMPLETED"

\* A failed upload not noticed.
UploadFailed_unnoticed(cid) == FALSE

\* Lines 93 and 102: `if not model_cid`, `if not model_info_cid`.
UploadFailed(cid) == cid = None

\* Lines 110: the name given to the Ledger.
ModelName(job_id, model_name) ==
    IF model_name # None THEN model_name ELSE "ML Model from Job " \o ToString(job_id)

\* The two ids handed over in the wrong order.
RegistrationArgs_swapped(job, name, model_cid, model_info_cid) ==
    <<job.owner_address, "Model", name, job.dataset_cid, model_info_cid, model_cid>>

\* Lines 112-119: owner_address, asset_type, name, dataset_cid, model_cid and
\* metadata_cid of the registration.
RegistrationArgs(job, name, model_cid, model_info_cid) ==
    <<job.owner_address, "Model", name, job.dataset_cid, model_cid, model_info_cid>>

\* Lines 80-138: the uploads and the registration.  o1, o2 and lo are what the
\* Blob Store and the Ledger do; exc = k > 0 makes step k raise an exception
\* that is no HTTPException.  The result holds the locals the finally block
\* reads, the status code of the response and the calls made.
PublishSteps(job, name, d, o1, o2, lo, exc) ==
    LET c1 == upload_file(job.temp_model_path, d, o1)
        c2 == upload_file(job.temp_info_path, d, o2)
        ra == RegistrationArgs(job, name, c1, c2)
        tx == register_asset_provenance(ra[1], ra[2], ra[3], ra[4], ra[5], ra[6], lo)
        k1(ret) == Call("upload_file", <<job.temp_model_path>>, ret)
        k2(ret) == Call("upload_file", <<job.temp_info_path>>, ret)
        k3(ret) == Call("register_asset_provenance", ra, ret)
        R(m, i, t, st, msg, code, log) ==
            [model_cid |-> m, model_info_cid |-> i, fvm_tx_hash |-> t, final_status |-> st,
             final_message |-> msg, code |-> code, log |-> log]
    IN  IF exc = 1 THEN
            R(None, None, None, DefaultFinalStatus, UnexpectedUploadError, 500, <<k1("raise")>>)
        ELSE IF UploadFailed(c1) THEN
            R(c1, None, None, UploadFailedStatus, "Failed to upload trained model file.", 500,
              <<k1(c1)>>)
        ELSE IF exc = 2 THEN
            R(c1, None, None, DefaultFinalStatus, UnexpectedUploadError, 500,
              <<k1(c1), k2("raise")>>)
        ELSE IF UploadFailed(c2) THEN
            R(c1, c2, None, UploadFailedStatus, "Failed to upload model metadata file.", 500,
              <<k1(c1), k2(c2)>>)
        ELSE IF exc = 3 THEN
            R(c1, c2, None, DefaultFinalStatus, UnexpectedUploadError, 500,
              <<k1(c1), k2(c2), k3("raise")>>)
        ELSE IF tx = None THEN
            R(c1, c2, tx, RegistrationFailedStatus,
              "Model and metadata uploaded, but FVM provenance registration failed.", 200,
              <<k1(c1), k2(c2), k3(tx)>>)
        ELSE
            R(c1, c2, tx, "COMPLETED", "Model uploaded and provenance registered successfully.",
              200, <<k1(c1), k2(c2), k3(tx)>>)

\* The final update leaving the status as it was.
FinalUpdate_keepsStatus(job, r) ==
    update_job_status(job, job.status, r.final_message,
                      <<  <<"model_cid", r.model_cid>>,
                          <<"model_info_cid", r.model_info_cid>>,
                          <<"fvm_tx_hash", r.fvm_tx_hash>>,
                          <<"temp_model_path", None>>,
                          <<"temp_info_path", None>>  >>)

\* The final update recording the results of a completed upload only.
FinalUpdate_dropsPartial(job, r) ==
    update_job_status(job, r.final_status, r.final_message,
                      IF r.final_status = "COMPLETED"
                      THEN <<  <<"model_cid", r.model_cid>>,
                               <<"model_info_cid", r.model_info_cid>>,
                               <<"fvm_tx_hash", r.fvm_tx_hash>>,
                               <<"temp_model_path", None>>,
                               <<"temp_info_path", None>>  >>
                      ELSE <<  <<"temp_model_path", None>>,
                               <<"temp_info_path", None>>  >>)

\* Lines 143-152: the final update of the finally block.
FinalUpdate(job, r) ==
    update_job_status(job, r.final_status, r.final_message,
                      <<  <<"model_cid", r.model_cid>>,
                          <<"model_info_cid", r.model_info_cid>>,
                          <<"fvm_tx_hash", r.fvm_tx_hash>>,
                          <<"temp_model_path", None>>,
                          <<"temp_info_path", None>>  >>)

\* The job as the endpoint's local `job` shows it after the final update:
\* get_job returned the stored object itself and update_job_status changed
\* that object in place, so `job` shows the updated attributes.
HandlerView(before, after) == after

\* Lines 157-169: the files the finally block removes.
FilesToRemove(job, d) ==
    {f \in {job.temp_model_path, job.temp_info_path} : f # None /\ f \in d}

PublishResponse(job_id, user, code, body) ==
    [op |-> "upload", job_id |-> job_id, user |-> user, code |-> code, body |-> body]

ExcPoints == 0..3

\* UploadTrainedModelRequest.model_name: absent or given.
ModelNames == {None, "my-model"}

\* Lines 55-74: the request passes every check made before the uploads.
PassesPreconditions(job_id, current_user_address, d) ==
    /\ JobExists(job_id)
    /\ IsJobOwner(training_jobs[job_id], current_user_address)
    /\ ReadyForUpload(training_jobs[job_id])
    /\ HasTempPaths(training_jobs[job_id])
    /\ StagedFilesExist(training_jobs[job_id], d)

\* Lines 55-78: a request that fails one of the checks.
upload_and_register_model_rejected(job_id, current_user_address) ==
    /\ resp = NoResp
    /\ ~PassesPreconditions(job_id, current_user_address, disk)
    /\ IF ~JobExists(job_id) THEN
            /\ resp' = PublishResponse(job_id, current_user_address, 404,
                                       [detail |-> "Training job not found."])
            /\ UNCHANGED training_jobs
       ELSE LET job == training_jobs[job_id] IN
            IF ~IsJobOwner(job, current_user_address) THEN
                /\ resp' = PublishResponse(job_id, current_user_address, 403,
                               [detail |-> "User is not authorized to perform this action on the specified job."])
                /\ UNCHANGED training_jobs
            ELSE IF ~ReadyForUpload(job) THEN
                /\ resp' = PublishResponse(job_id, current_user_address, 409,
                               [detail |-> "Job is not ready for upload."])
                /\ UNCHANGED training_jobs
            ELSE IF ~HasTempPaths(job) THEN
                /\ resp' = PublishResponse(job_id, current_user_address, 500,
                               [detail |-> "Internal error: Training output file paths not found."])
                /\ UNCHANGED training_jobs
            ELSE
                /\ training_jobs' = [training_jobs EXCEPT ![job_id] = MissingFilesUpdate(job)]
                /\ resp' = PublishResponse(job_id, current_user_address, 404,
                               [detail |-> "Required files for upload not found."])
    /\ UNCHANGED <<pc, pending, temp_dir, task_args, disk, calls, fee, now, inference_fee, model_cache, model_info_cache, inference_calls, nonce_store, verify_reqs, issued>>

\* Lines 80-181: a request that passed the checks: the uploads, the
\* registration, the final update, the removal of the staged files and the
\* response.
upload_and_register_model(job_id, current_user_address, model_name, o1, o2, lo, exc) ==
    /\ resp = NoResp
    /\ PassesPreconditions(job_id, current_user_address, disk)
    /\ LET job == training_jobs[job_id]
           r == PublishSteps(job, ModelName(job_id, model_name), disk, o1, o2, lo, exc)
           after == FinalUpdate(job, r)
       IN  /\ training_jobs'= [training_jobs EXCEPT ![job_id] = after]
           /\ calls' = [calls EXCEPT ![job_id] = @ \o r.log]
           /\ disk' = disk \ FilesToRemove(HandlerView(job, after), disk)
           /\ resp' = PublishResponse(job_id, current_user_address, r.code,
                          IF r.code = 200
                          THEN [model_cid |-> r.model_cid,
                                model_info_cid |-> r.model_info_cid,
                                fvm_tx_hash |-> r.fvm_tx_hash,
                                message |-> r.final_message]
                          ELSE [detail |-> r.final_message])
    /\ UNCHANGED <<pc, pending, temp_dir, task_args, fee, now, inference_fee, model_cache, model_info_cache, inference_calls, nonce_store, verify_reqs, issued>>

\* The endpoint returns: the response goes to the client and the event loop
\* takes the next request.
ReturnResponse ==
    /\ resp # NoResp
    /\ resp' = NoResp
    /\ UNCHANGED <<training_jobs, pc, pending, temp_dir, task_args, disk, calls, fee, now, inference_fee, model_cache, model_info_cache, inference_calls, nonce_store, verify_reqs, issued>>

-----------------------------------------------------------------------------
(* backend/routers/inference.py *)

\* InferenceRequest.model_cid and .model_info_cid (absent or given).
ModelCids == {"QmModelA", "QmModelB"}

ModelInfoCids == {None, "QmInfoA"}

\* The users that ask for predictions.
Callers == {"0xAbC1", "0xDeF2"}

\* lighthouse_service.download_file as load_model_and_info sees it: True or False.
FetchOutcomes == {"ok", "fail"}

\* fvm_service.get_provenance_by_cid: a record with a metadata CID, no usable
\* record, or an error.
ProvenanceOutcomes == {"metadata", "none", "raise"}

\* json.load and joblib.load on the downloaded files.
LoadOutcomes == {"ok", "raise"}

\* ml_service.predict_with_model: a result, or None.
PredictOutcomes == {"ok", "none"}

\* The metadata CID the provenance record of a model holds.
MetadataCidOf(model_cid) == "QmInfoOf:" \o model_cid

\* Lines 30 and 84: the key of the metadata cache.
InfoCacheKey(model_cid, model_info_cid) ==
    IF model_info_cid # None THEN model_info_cid ELSE model_cid

\* The payment checked as a payment for training.
InferenceServiceType_training == "TRAINING"

\* Line 140
InferenceServiceType == "INFERENCE"

\* Line 144: `if not payment_verified`.
InferencePaymentVerified(result) == result = "true"

\* The loader without its cache check.
CacheHit_never(model_cid, key, mc, ic) == FALSE

\* Lines 29-32: `if cached_model and cached_info`.
CacheHit(model_cid, key, mc, ic) == model_cid \in mc /\ key \in ic

\* load_model_and_info (lines 26-96).  The result says whether a model and
\* its metadata were obtained, the caches after the call and the calls made.
load_model_and_info(model_cid, model_info_cid, mc, ic, d1, po, d2, lo) ==
    LET key == InfoCacheKey(model_cid, model_info_cid)
        L(model, info, mc2, ic2, log) ==
            [model |-> model, model_info |-> info, model_cache |-> mc2,
             model_info_cache |-> ic2, log |-> log]
        log1 == <<Call("download_file", <<model_cid>>, d1)>>
        lookup == model_info_cid = None
        info_cid_to_download ==
            IF ~lookup THEN model_info_cid
            ELSE IF po = "metadata" THEN MetadataCidOf(model_cid)
            ELSE None
        log2 == log1 \o (IF lookup THEN <<Call("get_provenance_by_cid", <<model_cid>>, po)>>
                         ELSE <<>>)
        log3 == log2 \o (IF info_cid_to_download # None
                         THEN <<Call("download_file", <<info_cid_to_download>>, d2)>>
                         ELSE <<>>)
        has_info == info_cid_to_download # None /\ d2 = "ok"
    IN  IF CacheHit(model_cid, key, mc, ic) THEN L(TRUE, TRUE, mc, ic, <<>>)
        ELSE IF d1 # "ok" THEN L(FALSE, FALSE, mc, ic, log1)
        ELSE IF lo = "raise" THEN L(FALSE, FALSE, mc, ic, log3)
        ELSE L(TRUE, has_info, mc \cup {model_cid},
               IF has_info THEN ic \cup {key} ELSE ic, log3)

\* The answer to a predict request, with the caller and the model_cid and
\* model_info_cid of the request it answers.
PredictResponse(user, model_cid, model_info_cid, code, body) ==
    [op |-> "predict", job_id |-> 0, user |-> user, code |-> code, body |-> body,
     model_cid |-> model_cid, model_info_cid |-> model_info_cid]

\* predict (lines 109-185).  `payment` is what inference_request.paymentTxHash
\* evaluates to at line 135: InferenceRequest declares no such field.  An
\* exception that is no HTTPException ends in the framework's 500.
predict(current_user_address, model_cid, model_info_cid, payment, vo, d1, po, d2, lo, pro) ==
    LET verify == Call("verify_payment", <<current_user_address, InferenceServiceType>>, vo)
        l == load_model_and_info(model_cid, model_info_cid, model_cache, model_info_cache,
                                 d1, po, d2, lo)
        Reject(code, detail, log) ==
            /\ resp' = PredictResponse(current_user_address, model_cid, model_info_cid, code, [detail |-> detail])
            /\ inference_calls' = log
            /\ UNCHANGED <<model_cache, model_info_cache>>
    IN  /\ resp = NoResp
        /\ IF inference_fee = 0 THEN
                Reject(500, "Service configuration error.", <<>>)
           ELSE IF payment = "AttributeError" THEN
                Reject(500, "Internal Server Error", <<>>)
           ELSE IF verify_payment(vo) = "raise" THEN
                Reject(500, "Internal Server Error", <<verify>>)
           ELSE IF ~InferencePaymentVerified(verify_payment(vo)) THEN
                Reject(402, "Service fee payment verification failed.", <<verify>>)
           ELSE /\ model_cache' = l.model_cache
                /\ model_info_cache' = l.model_info_cache
                /\ inference_calls' = <<verify>> \o l.log
                /\ resp' =
                      IF ~l.model THEN
                          PredictResponse(current_user_address, model_cid, model_info_cid, 404,
                                          [detail |-> "Model not found or failed to load"])
                      ELSE IF ~l.model_info THEN
                          PredictResponse(current_user_address, model_cid, model_info_cid, 400,
                                          [detail |-> "Model metadata is required for inference"])
                      ELSE IF pro = "none" THEN
                          PredictResponse(current_user_address, model_cid, model_info_cid, 500,
                                          [detail |-> "Prediction failed. Check server logs for details."])
                      ELSE PredictResponse(current_user_address, model_cid, model_info_cid, 200, [model_cid |-> model_cid])
        /\ UNCHANGED <<training_jobs, pc, pending, temp_dir, task_args, disk, calls, fee, now,
                       inference_fee, nonce_store, verify_reqs, issued>>

-----------------------------------------------------------------------------
(* The environment: the temporary directory of a finished task is cleaned   *)
(* up before the upload (the case models.py lines 74-78 handle).            *)

\* The clock advances.  The job lifecycle reads the clock only to stamp
\* created_at and updated_at, which no endpoint and no task ever reads back:
\* Spec leaves the clock where it is, and StoreSpec, where the stamps are
\* looked at, lets it advance.
Tick ==
    /\ now < MaxTime
    /\ now' = now + 1
    /\ UNCHANGED <<training_jobs, pc, pending, temp_dir, task_args, disk, calls, fee, resp, inference_fee, model_cache, model_info_cache, inference_calls, nonce_store, verify_reqs, issued>>

RemoveStagedFiles(j) ==
    /\ pc[j] = "done"
    /\ {ModelPath(j), InfoPath(j)} \cap disk # {}
    /\ disk' = disk \ {ModelPath(j), InfoPath(j)}
    /\ UNCHANGED <<training_jobs, pc, pending, temp_dir, task_args, calls, fee, now, resp, inference_fee, model_cache, model_info_cache, inference_calls, nonce_store, verify_reqs, issued>>

-----------------------------------------------------------------------------

Next ==
    \/ \E u \in Owners, ds \in DatasetCids, p \in PaymentAttrs : start_training(u, ds, p)
    \/ \E j \in JobIds : WorkerBegin(j)
    \/ \E j \in JobIds : WorkerWrite(j)
    \/ \E j \in JobIds, o \in VerifyOutcomes : WorkerVerify(j, o)
    \/ \E j \in JobIds, o \in DownloadOutcomes : WorkerDownload(j, o)
    \/ \E j \in JobIds, o \in TrainOutcomes : WorkerTrain(j, o)
    \/ \E j \in JobIds : WorkerFinally(j)
    \/ \E j \in JobIds, u \in Users : get_training_status(j, u)
    \/ \E j \in JobIds, u \in Users : upload_and_register_model_rejected(j, u)
    \/ \E j \in JobIds, u \in Users, n \in ModelNames, o1 \in UploadOutcomes,
          o2 \in UploadOutcomes, lo \in LedgerOutcomes, e \in ExcPoints :
            upload_and_register_model(j, u, n, o1, o2, lo, e)
    \/ \E j \in JobIds : RemoveStagedFiles(j)
    \/ ReturnResponse

Spec == Init /\ [][Next]_vars

\* The store on its own: store_job applied to any record.  job_id 0 stands for
\* a record without job_id.
JobRecords ==
    [job_id : 0..MaxStored, status : {"PENDING"}, message : {None},
     dataset_cid : DatasetCids, owner_address : {"0xAbC1", "0xDeF2"},
     model_cid : {None}, model_info_cid : {None},
     accuracy : {None}, fvm_tx_hash : {None},
     created_at : {0}, updated_at : {0},
     temp_model_path : {None, ModelPath(1)}, temp_info_path : {None}]

StoreCall(op, job_id, detail, args) ==
    [op |-> op, job_id |-> job_id, user |-> None, code |-> 0,
     body |-> [detail |-> detail, args |-> args]]

store_job_call(job) ==
    /\ resp = NoResp
    /\ job.job_id <= Len(training_jobs) + 1
    /\ training_jobs' = store_job(training_jobs, job)
    /\ resp' = StoreCall("store_job", job.job_id, "returned", <<>>)
    /\ UNCHANGED <<pc, pending, temp_dir, task_args, disk, calls, fee, now, inference_fee, model_cache, model_info_cache, inference_calls, nonce_store, verify_reqs, issued>>

\* The job ids update_job_status is called with: stored ones and unknown ones.
UpdateIds == 1..(MaxStored + 1)

UpdateStatuses == {"TRAINING", "FAILED"}

UpdateMessages == {"msg"}

\* The keyword arguments of a call: result fields, and a name that is no
\* field of TrainingStatusResponse.
UpdateKwargs ==
    {<<>>,
     <<  <<"temp_model_path", None>>  >>,
     <<  <<"progress", "50%">>, <<"accuracy", Accuracy>>  >>}

update_job_status_call(job_id, status, message, kwargs) ==
    /\ resp = NoResp
    /\ training_jobs' = StoreAfterUpdate(training_jobs, job_id, status, message, kwargs)
    /\ resp' = StoreCall("update_job_status", job_id,
                         UpdateOutcome(training_jobs, job_id, kwargs),
                         <<status, message, kwargs>>)
    /\ UNCHANGED <<pc, pending, temp_dir, task_args, disk, calls, fee, now, inference_fee, model_cache, model_info_cache, inference_calls, nonce_store, verify_reqs, issued>>

StoreNext ==
    \/ \E job \in JobRecords : store_job_call(job)
    \/ \E job_id \in UpdateIds, status \in UpdateStatuses, message \in UpdateMessages,
          kwargs \in UpdateKwargs : update_job_status_call(job_id, status, message, kwargs)
    \/ ReturnResponse
    \/ Tick

StoreSpec == Init /\ [][StoreNext]_vars

\* The inference endpoint on its own.
InferenceNext ==
    \/ \E u \in Callers, m \in ModelCids, i \in ModelInfoCids, p \in PaymentAttrs,
          vo \in VerifyOutcomes, d1 \in FetchOutcomes, po \in ProvenanceOutcomes,
          d2 \in FetchOutcomes, lo \in LoadOutcomes, pro \in PredictOutcomes :
            predict(u, m, i, p, vo, d1, po, d2, lo, pro)
    \/ ReturnResponse

\* The inference fee configured or unset, empty caches, no job.
InferenceInit ==
    /\ training_jobs = <<>>
    /\ pc = [j \in JobIds |-> "none"]
    /\ pending = [j \in JobIds |-> <<>>]
    /\ temp_dir = [j \in JobIds |-> None]
    /\ task_args = [j \in JobIds |-> [dataset_cid |-> None, owner_address |-> None]]
    /\ disk = {}
    /\ calls = [j \in JobIds |-> <<>>]
    /\ fee = TRAINING_SERVICE_FEE
    /\ now = 0
    /\ resp = NoResp
    /\ inference_fee \in {0, INFERENCE_SERVICE_FEE}
    /\ model_cache = {}
    /\ model_info_cache = {}
    /\ inference_calls = <<>>
    /\ AuthIdle

InferenceSpec == InferenceInit /\ [][InferenceNext]_vars

\* Several jobs side by side: one job more than Spec runs, each with its own
\* task, and the requests of the owner.
JobSlots == 1..(MaxJobs + 1)

JobsInit ==
    /\ training_jobs = <<>>
    /\ pc = [j \in JobSlots |-> "none"]
    /\ pending = [j \in JobSlots |-> <<>>]
    /\ temp_dir = [j \in JobSlots |-> None]
    /\ task_args = [j \in JobSlots |-> [dataset_cid |-> None, owner_address |-> None]]
    /\ disk = {}
    /\ calls = [j \in JobSlots |-> <<>>]
    /\ fee = TRAINING_SERVICE_FEE
    /\ now = 0
    /\ resp = NoResp
    /\ inference_fee = INFERENCE_SERVICE_FEE
    /\ model_cache = {}
    /\ model_info_cache = {}
    /\ inference_calls = <<>>
    /\ AuthIdle

JobsNext ==
    \/ \E u \in Owners, ds \in DatasetCids, p \in PaymentAttrs : start_training(u, ds, p)
    \/ \E j \in JobSlots : WorkerBegin(j)
    \/ \E j \in JobSlots : WorkerWrite(j)
    \/ \E j \in JobSlots, o \in VerifyOutcomes : WorkerVerify(j, o)
    \/ \E j \in JobSlots, o \in DownloadOutcomes : WorkerDownload(j, o)
    \/ \E j \in JobSlots, o \in TrainOutcomes : WorkerTrain(j, o)
    \/ \E j \in JobSlots : WorkerFinally(j)
    \/ \E j \in JobSlots, u \in Owners : get_training_status(j, u)
    \/ \E j \in JobSlots, u \in Owners : upload_and_register_model_rejected(j, u)
    \/ \E j \in JobSlots, u \in Owners, n \in ModelNames, o1 \in UploadOutcomes,
          o2 \in UploadOutcomes, lo \in LedgerOutcomes, e \in ExcPoints :
            upload_and_register_model(j, u, n, o1, o2, lo, e)
    \/ \E j \in JobSlots : RemoveStagedFiles(j)
    \/ ReturnResponse

JobsSpec == JobsInit /\ [][JobsNext]_vars

-----------------------------------------------------------------------------
(* backend/routers/auth.py: get_nonce and verify_signature.  Both are plain *)
(* `def` endpoints: each request runs on a thread of the pool, so the steps *)
(* of several verify requests interleave at the grain of the single         *)
(* operations on _nonce_store.                                              *)

Nonces == 1..MaxNonces

VerifyThreads == 1..MaxVerify

\* Line 23
NONCE_EXPIRATION_SECONDS == 300

\* The seconds between two readings of the clock that differ by one.
ClockStep == NONCE_EXPIRATION_SECONDS + 1

\* What SiweMessage(**message) and siwe_message.verify(signature) do: return,
\* raise a ValueError, or raise another exception.
SiweOutcomes == {"ok", "ValueError", "raise"}

\* siwe_message.domain against config.EXPECTED_FRONTEND_DOMAIN.
DomainOutcomes == {"ok", "mismatch", "unset"}

\* create_access_token: jwt.encode returns or raises.
TokenOutcomes == {"ok", "raise"}

\* Lines 38 and 106: `(now - timestamp).total_seconds() > NONCE_EXPIRATION_SECONDS`.
Expired(timestamp, at) == (at - timestamp) * ClockStep > NONCE_EXPIRATION_SECONDS

\* `del _nonce_store[key]` inside try/except KeyError.
Removed(store, key) == [k \in DOMAIN store \ {key} |-> store[k]]

\* cleanup_expired_nonces (lines 33-45).
cleanup_expired_nonces(store, at) ==
    [k \in {n \in DOMAIN store : ~Expired(store[n], at)} |-> store[k]]

\* get_nonce (lines 60-69).  generate_nonce() returns a random string: a nonce
\* that was not issued before.
get_nonce ==
    LET nonce == Len(issued) + 1 IN
    /\ resp = NoResp
    /\ nonce \in Nonces
    /\ nonce_store' = [k \in DOMAIN cleanup_expired_nonces(nonce_store, now) \cup {nonce} |->
                          IF k = nonce THEN now ELSE nonce_store[k]]
    /\ issued' = Append(issued, 0)
    /\ resp' = [op |-> "nonce", job_id |-> 0, user |-> None, code |-> 200,
                body |-> [nonce |-> nonce]]
    /\ UNCHANGED <<training_jobs, pc, pending, temp_dir, task_args, disk, calls, fee, now, inference_fee, model_cache, model_info_cache, inference_calls, verify_reqs>>

\* The request of thread t ends with an HTTPException or a response.
Answered(t, code, detail) ==
    verify_reqs' = [verify_reqs EXCEPT ![t].pc = "done", ![t].code = code, ![t].detail = detail]

\* Lines 86-93 and 147-154: the message is parsed and the signature verified.
verify_signature_begin(t, nonce, so, do) ==
    /\ verify_reqs[t].pc = "idle"
    /\ IF so = "ValueError" THEN Answered(t, 401, "Signature verification failed")
       ELSE IF so = "raise" THEN Answered(t, 500, "An internal error occurred during verification.")
       ELSE verify_reqs' = [verify_reqs EXCEPT ![t].pc = "lookup", ![t].nonce = nonce,
                                               ![t].domain = do]
    /\ UNCHANGED <<training_jobs, pc, pending, temp_dir, task_args, disk, calls, fee, now, inference_fee, model_cache, model_info_cache, inference_calls, resp, nonce_store, issued>>

\* Lines 99-124: the nonce is looked up and its age and the domain checked.
verify_signature_lookup(t) ==
    LET r == verify_reqs[t] IN
    /\ r.pc = "lookup"
    /\ IF r.nonce \notin DOMAIN nonce_store THEN Answered(t, 401, "Invalid or expired nonce.")
       ELSE IF Expired(nonce_store[r.nonce], now) THEN
            verify_reqs' = [verify_reqs EXCEPT ![t].pc = "expire"]
       ELSE IF r.domain = "unset" THEN Answered(t, 500, "Server configuration error.")
       ELSE IF r.domain = "mismatch" THEN
            Answered(t, 401, "Domain mismatch. Signature is not valid for this application.")
       ELSE verify_reqs' = [verify_reqs EXCEPT ![t].pc = "consume"]
    /\ UNCHANGED <<training_jobs, pc, pending, temp_dir, task_args, disk, calls, fee, now, inference_fee, model_cache, model_info_cache, inference_calls, resp, nonce_store, issued>>

\* Lines 106-110: the expired nonce is deleted.
verify_signature_expire(t) ==
    /\ verify_reqs[t].pc = "expire"
    /\ nonce_store' = Removed(nonce_store, verify_reqs[t].nonce)
    /\ Answered(t, 401, "Expired nonce.")
    /\ UNCHANGED <<training_jobs, pc, pending, temp_dir, task_args, disk, calls, fee, now, inference_fee, model_cache, model_info_cache, inference_calls, resp, issued>>

\* `del` finding the key whatever the store holds (a pop with a default).
NonceConsumable_always(store, nonce) == TRUE

\* Line 128: `del _nonce_store[siwe_message.nonce]` raises KeyError when the
\* nonce is not in the store.
NonceConsumable(store, nonce) == nonce \in DOMAIN store

\* Lines 127-132: the nonce is consumed.
verify_signature_consume(t) ==
    /\ verify_reqs[t].pc = "consume"
    /\ IF NonceConsumable(nonce_store, verify_reqs[t].nonce)
       THEN /\ nonce_store' = Removed(nonce_store, verify_reqs[t].nonce)
            /\ verify_reqs' = [verify_reqs EXCEPT ![t].pc = "issue"]
       ELSE /\ Answered(t, 401, "Nonce already used.")
            /\ UNCHANGED nonce_store
    /\ UNCHANGED <<training_jobs, pc, pending, temp_dir, task_args, disk, calls, fee, now, inference_fee, model_cache, model_info_cache, inference_calls, resp, issued>>

\* Lines 135-145: the token is created and returned.
verify_signature_issue(t, to) ==
    /\ verify_reqs[t].pc = "issue"
    /\ IF to = "ok"
       THEN /\ issued' = [issued EXCEPT ![verify_reqs[t].nonce] = @ + 1]
            /\ Answered(t, 200, "ok")
       ELSE /\ Answered(t, 500, "An internal error occurred during verification.")
            /\ UNCHANGED issued
    /\ UNCHANGED <<training_jobs, pc, pending, temp_dir, task_args, disk, calls, fee, now, inference_fee, model_cache, model_info_cache, inference_calls, resp, nonce_store>>

\* The answer is sent and the thread takes the next request.
verify_signature_return(t) ==
    /\ verify_reqs[t].pc = "done"
    /\ verify_reqs' = [verify_reqs EXCEPT ![t] = IdleRequest]
    /\ UNCHANGED <<training_jobs, pc, pending, temp_dir, task_args, disk, calls, fee, now, inference_fee, model_cache, model_info_cache, inference_calls, resp, nonce_store, issued>>

AuthInit == Init /\ fee = TRAINING_SERVICE_FEE

AuthNext ==
    \/ get_nonce
    \/ \E t \in VerifyThreads, n \in Nonces, so \in SiweOutcomes, do \in DomainOutcomes :
          verify_signature_begin(t, n, so, do)
    \/ \E t \in VerifyThreads : verify_signature_lookup(t)
    \/ \E t \in VerifyThreads : verify_signature_expire(t)
    \/ \E t \in VerifyThreads : verify_signature_consume(t)
    \/ \E t \in VerifyThreads, to \in TokenOutcomes : verify_signature_issue(t, to)
    \/ \E t \in VerifyThreads : verify_signature_return(t)
    \/ ReturnResponse
    \/ Tick

AuthSpec == AuthInit /\ [][AuthNext]_vars

\* A step of the thread that runs run_training_job for job j.
WorkerStep(j) ==
    \/ WorkerBegin(j)
    \/ WorkerWrite(j)
    \/ \E o \in VerifyOutcomes : WorkerVerify(j, o)
    \/ \E o \in DownloadOutcomes : WorkerDownload(j, o)
    \/ \E o \in TrainOutcomes : WorkerTrain(j, o)
    \/ WorkerFinally(j)

\* Scheduling: the event loop sends every response, and the thread of a
\* scheduled task keeps running (every external call returns or raises).
FairSpec ==
    /\ Spec
    /\ WF_vars(ReturnResponse)
    /\ \A j \in JobIds : WF_vars(WorkerStep(j))

-----------------------------------------------------------------------------
(* Properties *)

Terminal == {"COMPLETED", "FAILED", "UPLOAD_FAILED"}

\* The edges of the job state machine.
Edges ==
    {<<"PENDING", "VERIFYING_PAYMENT">>, <<"VERIFYING_PAYMENT", "DOWNLOADING">>,
     <<"DOWNLOADING", "TRAINING">>, <<"TRAINING", "TRAINING_COMPLETE">>,
     <<"TRAINING_COMPLETE", "COMPLETED">>, <<"TRAINING_COMPLETE", "UPLOAD_FAILED">>}
    \cup {<<s, "FAILED">> : s \in Statuses \ Terminal}

\* This step is endpoint `op` answering user u's request on job j.
Answers(op, j, u) ==
    resp = NoResp /\ resp'.op = op /\ resp'.job_id = j /\ resp'.user = u

\* The calls that uploaded `path` for job j, and the registrations made for it.
UploadCalls(j, path) ==
    {i \in DOMAIN calls[j] : calls[j][i].fn = "upload_file" /\ calls[j][i].args[1] = path}

RegisterCalls(j) ==
    {i \in DOMAIN calls[j] : calls[j][i].fn = "register_asset_provenance"}

\* What the calls `is` returned: None when there was none or it raised.
Obtained(j, is) ==
    IF is = {} THEN None
    ELSE LET ret == calls[j][CHOOSE i \in is : TRUE].ret
         IN  IF ret = "raise" THEN None ELSE ret

\* A publish request on job j has passed the preconditions.
PublishRan(j) == UploadCalls(j, ModelPath(j)) # {}

ModelUploadOk(j) == Obtained(j, UploadCalls(j, ModelPath(j))) # None

InfoUploadOk(j) == Obtained(j, UploadCalls(j, InfoPath(j))) # None

InfoUploadFailed(j) ==
    \E i \in UploadCalls(j, InfoPath(j)) : calls[j][i].ret = None

RegistrationFailed(j) ==
    \E i \in RegisterCalls(j) : calls[j][i].ret = None

\* A record that shows TRAINING_COMPLETE without all the results of that update.
Torn(job) ==
    /\ job.status = "TRAINING_COMPLETE"
    /\ (job.accuracy = None \/ job.temp_model_path = None \/ job.temp_info_path = None)

\* C1: every change of a job's status follows an edge of the state machine
\* (no stage skipped, none reversed, FAILED only from a non-terminal state),
\* and a new job starts in PENDING.
C1_LegalTransitions ==
    [][\A j \in DOMAIN training_jobs' :
          IF j \in DOMAIN training_jobs
          THEN \/ training_jobs'[j].status = training_jobs[j].status
               \/ <<training_jobs[j].status, training_jobs'[j].status>> \in Edges
          ELSE training_jobs'[j].status = "PENDING"]_vars

\* A job that went through every stage and was registered.
C1_Witness ==
    \E j \in DOMAIN training_jobs :
        /\ training_jobs[j].status = "COMPLETED"
        /\ training_jobs[j].fvm_tx_hash # None
        /\ pc[j] = "done"

\* C2: no status query and no publish request observes a job that shows
\* TRAINING_COMPLETE while accuracy or a staged path of that update is not yet
\* written.
C2_ReadsAreAtomic ==
    /\ (resp.op = "status" /\ resp.code = 200) => ~Torn(resp.body)
    /\ (resp.op = "upload" /\ resp.code = 500) =>
          resp.body.detail # "Internal error: Training output file paths not found."

\* C3: once a publish request has passed the preconditions, every later publish
\* request of the owner on that job is answered 409 and makes no call, and the
\* model upload, the metadata upload and the registration are each made at
\* most once for a job.
C3_PublishOnce ==
    /\ [][\A j \in DOMAIN training_jobs : \A u \in Users :
             (PublishRan(j) /\ Answers("upload", j, u) /\ IsJobOwner(training_jobs[j], u))
                => (resp'.code = 409 /\ calls'[j] = calls[j])]_vars
    /\ [](\A j \in JobIds :
             /\ Cardinality(UploadCalls(j, ModelPath(j))) <= 1
             /\ Cardinality(UploadCalls(j, InfoPath(j))) <= 1
             /\ Cardinality(RegisterCalls(j)) <= 1)

\* A second publish request answered 409 after the first one ran.
C3_Witness ==
    /\ resp.op = "upload"
    /\ resp.code = 409
    /\ PublishRan(resp.job_id)

\* C4: whenever no update of the job is in progress, both staged paths are
\* set if and only if the job is TRAINING_COMPLETE; a job in FAILED, COMPLETED
\* or UPLOAD_FAILED holds no staged path.
C4_StagedPathsIffTrainingComplete ==
    \A j \in DOMAIN training_jobs :
        pending[j] = <<>> =>
            /\ HasTempPaths(training_jobs[j]) <=> training_jobs[j].status = "TRAINING_COMPLETE"
            /\ training_jobs[j].status \in Terminal =>
                    /\ training_jobs[j].temp_model_path = None
                    /\ training_jobs[j].temp_info_path = None

\* C5: after a publish request that passed the preconditions, neither staged
\* file of the job exists on disk.
C5_StagedFilesDeleted ==
    \A j \in JobIds :
        PublishRan(j) => (ModelPath(j) \notin disk /\ InfoPath(j) \notin disk)

\* C6: after a publish request that passed the preconditions, the job is in
\* COMPLETED, UPLOAD_FAILED or FAILED, both staged paths are None, and the
\* record holds exactly the ids and the transaction hash the calls returned.
C6_FinalizationAlwaysRuns ==
    \A j \in DOMAIN training_jobs :
        PublishRan(j) =>
            /\ training_jobs[j].status \in Terminal
            /\ training_jobs[j].temp_model_path = None
            /\ training_jobs[j].temp_info_path = None
            /\ training_jobs[j].model_cid = Obtained(j, UploadCalls(j, ModelPath(j)))
            /\ training_jobs[j].model_info_cid = Obtained(j, UploadCalls(j, InfoPath(j)))
            /\ training_jobs[j].fvm_tx_hash = Obtained(j, RegisterCalls(j))

\* A publish that ended FAILED on an exception after both uploads.
C6_Witness ==
    \E j \in DOMAIN training_jobs :
        /\ PublishRan(j)
        /\ training_jobs[j].status = "FAILED"
        /\ training_jobs[j].model_cid # None
        /\ training_jobs[j].model_info_cid # None

\* C7: once a job is COMPLETED, FAILED or UPLOAD_FAILED no step changes its
\* status, a publish request of the owner is answered 409, and a status
\* query of the owner shows that status.
C7_TerminalFrozen ==
    [][\A j \in DOMAIN training_jobs :
          training_jobs[j].status \in Terminal =>
              /\ training_jobs'[j].status = training_jobs[j].status
              /\ \A u \in Users :
                    /\ (Answers("upload", j, u) /\ IsJobOwner(training_jobs[j], u))
                          => resp'.code = 409
                    /\ (Answers("status", j, u) /\ u = training_jobs[j].owner_address)
                          => (resp'.code = 200
                              /\ resp'.body.status = training_jobs[j].status)]_vars

\* A publish request on a failed job answered 409 after the task ended.
C7_Witness ==
    /\ resp.op = "upload"
    /\ resp.code = 409
    /\ JobExists(resp.job_id)
    /\ training_jobs[resp.job_id].status = "FAILED"
    /\ pc[resp.job_id] = "done"

\* C8: a status query or publish request of a user whose address is not the
\* owner's is answered 401 or 403, makes no upload and no Ledger call and
\* leaves every job as it was.
C8_NonOwnerRejected ==
    [][\A j \in DOMAIN training_jobs : \A u \in Users :
          ((Answers("status", j, u) \/ Answers("upload", j, u))
              /\ Lower(u) # Lower(training_jobs[j].owner_address))
             => /\ resp'.code \in {401, 403}
                /\ training_jobs' = training_jobs
                /\ calls' = calls
                /\ disk' = disk]_vars

\* A stranger's publish request answered 403 on a job that is ready for upload.
C8_Witness ==
    /\ resp.op = "upload"
    /\ resp.code = 403
    /\ JobExists(resp.job_id)
    /\ training_jobs[resp.job_id].status = "TRAINING_COMPLETE"
    /\ ~Torn(training_jobs[resp.job_id])

\* C9: when the model upload succeeded and the metadata upload failed, the
\* job is UPLOAD_FAILED, model_cid is the id the upload returned,
\* model_info_cid and fvm_tx_hash are None and the Ledger was not called.
C9_ModelCidKeptOnMetadataFailure ==
    \A j \in DOMAIN training_jobs :
        (ModelUploadOk(j) /\ InfoUploadFailed(j)) =>
            /\ training_jobs[j].status = "UPLOAD_FAILED"
            /\ training_jobs[j].model_cid = Cid(ModelPath(j))
            /\ training_jobs[j].model_info_cid = None
            /\ training_jobs[j].fvm_tx_hash = None
            /\ RegisterCalls(j) = {}

\* The metadata upload failed after the model upload and the request got 500.
C9_Witness ==
    /\ resp.op = "upload"
    /\ resp.code = 500
    /\ ModelUploadOk(resp.job_id)
    /\ InfoUploadFailed(resp.job_id)

\* C10: when both uploads succeeded and the registration returned no
\* transaction hash (not connected, failed receipt, error), the request is
\* answered 200 with no transaction hash, and the job is COMPLETED with both
\* ids and no fvm_tx_hash from then on.
C10_CompletedWithoutLedgerTx ==
    /\ [][\A j \in DOMAIN training_jobs :
             (calls'[j] # calls[j] /\ RegistrationFailed(j)')
                => /\ resp'.op = "upload"
                   /\ resp'.job_id = j
                   /\ resp'.code = 200
                   /\ resp'.body.fvm_tx_hash = None
                   /\ resp'.body.model_cid = Cid(ModelPath(j))
                   /\ resp'.body.model_info_cid = Cid(InfoPath(j))]_vars
    /\ [](\A j \in DOMAIN training_jobs :
             RegistrationFailed(j) =>
                /\ training_jobs[j].status = "COMPLETED"
                /\ training_jobs[j].fvm_tx_hash = None
                /\ training_jobs[j].model_cid = Cid(ModelPath(j))
                /\ training_jobs[j].model_info_cid = Cid(InfoPath(j)))

\* The request answered 200 although the registration failed.
C10_Witness ==
    /\ resp.op = "upload"
    /\ resp.code = 200
    /\ RegistrationFailed(resp.job_id)
    /\ training_jobs[resp.job_id].status = "COMPLETED"

\* The calls of job j to function fn.
CallsOf(j, fn) == {i \in DOMAIN calls[j] : calls[j][i].fn = fn}

\* The payment of job j was not accepted: the fee is not configured, or the
\* verifier returned false or raised.
PaymentRejected(j) ==
    \/ fee = 0
    \/ \E i \in CallsOf(j, "verify_payment") : calls[j][i].ret # "true"

\* The task of job j has made its last report.
WorkerEnded(j) == pc[j] = "done" \/ (pc[j] = "finally" /\ pending[j] = <<>>)

\* C11: a job whose payment was not accepted (verifier false, verifier error,
\* fee not configured) is never DOWNLOADING or TRAINING or beyond, makes no
\* dataset download and no Trainer call, and is FAILED when its task ends.
C11_PaymentFailsClosed ==
    \A j \in DOMAIN training_jobs :
        PaymentRejected(j) =>
            /\ training_jobs[j].status \in {"PENDING", "VERIFYING_PAYMENT", "FAILED"}
            /\ CallsOf(j, "download_file") = {}
            /\ CallsOf(j, "train_model_on_dataset") = {}
            /\ WorkerEnded(j) => training_jobs[j].status = "FAILED"

\* The verifier returned false and the task ended with the job FAILED.
C11_Witness ==
    \E j \in DOMAIN training_jobs :
        /\ \E i \in CallsOf(j, "verify_payment") : calls[j][i].ret = "false"
        /\ training_jobs[j].status = "FAILED"
        /\ pc[j] = "done"

\* C12: every start-training request is answered 202 with a job id that was
\* not in the store, adds exactly one record, PENDING and owned by the
\* requester, and leaves a Training Worker scheduled for that job.
C12_StartSchedulesWorker ==
    [][\A j \in JobIds : \A u \in Users :
          Answers("start", j, u) =>
              /\ resp'.code = 202
              /\ j \notin DOMAIN training_jobs
              /\ Len(training_jobs') = Len(training_jobs) + 1
              /\ training_jobs'[j].status = "PENDING"
              /\ training_jobs'[j].owner_address = u
              /\ pc'[j] = "scheduled"]_vars

\* C13: once the Training Worker of a job has started, the job eventually is
\* TRAINING_COMPLETE or FAILED, whatever the external calls return or raise.
C13_WorkerReachesOutcome ==
    \A j \in JobIds :
        (pc[j] \in {"verify", "download", "train"})
            ~> (j \in DOMAIN training_jobs
                /\ training_jobs[j].status \in {"TRAINING_COMPLETE", "FAILED"})

\* A task ended after an exception forced the job to FAILED.
C13_Witness ==
    \E j \in DOMAIN training_jobs :
        /\ pc[j] = "done"
        /\ training_jobs[j].status = "FAILED"
        /\ training_jobs[j].message = UnexpectedTrainingError

\* C14: at the step where a job becomes TRAINING_COMPLETE, accuracy and both
\* staged paths are set and the two files they name exist on disk.
C14_CompleteWithResults ==
    [][\A j \in DOMAIN training_jobs :
          (training_jobs[j].status # "TRAINING_COMPLETE"
              /\ training_jobs'[j].status = "TRAINING_COMPLETE")
             => /\ training_jobs'[j].accuracy # None
                /\ HasTempPaths(training_jobs'[j])
                /\ StagedFilesExist(training_jobs'[j], disk')]_vars

\* C15: a publish request of the owner on a TRAINING_COMPLETE job with a staged
\* path missing from the record or a staged file missing from disk marks the
\* job FAILED, is answered 404 and makes no upload and no Ledger call.
C15_MissingStagedFiles ==
    [][\A j \in DOMAIN training_jobs : \A u \in Users :
          (/\ Answers("upload", j, u)
           /\ IsJobOwner(training_jobs[j], u)
           /\ training_jobs[j].status = "TRAINING_COMPLETE"
           /\ (~HasTempPaths(training_jobs[j]) \/ ~StagedFilesExist(training_jobs[j], disk)))
             => /\ resp'.code = 404
                /\ training_jobs'[j].status = "FAILED"
                /\ calls' = calls]_vars

\* C16: a publish request of the owner on a job that is not TRAINING_COMPLETE
\* is answered 409, makes no upload and no Ledger call, and leaves the store
\* and the disk as they were.
C16_NotReadyConflict ==
    [][\A j \in DOMAIN training_jobs : \A u \in Users :
          (/\ Answers("upload", j, u)
           /\ IsJobOwner(training_jobs[j], u)
           /\ training_jobs[j].status # "TRAINING_COMPLETE")
             => /\ resp'.code = 409
                /\ calls' = calls
                /\ training_jobs' = training_jobs
                /\ disk' = disk]_vars

\* A publish request answered 409 while the job is still TRAINING.
C16_Witness ==
    /\ resp.op = "upload"
    /\ resp.code = 409
    /\ JobExists(resp.job_id)
    /\ training_jobs[resp.job_id].status = "TRAINING"
    /\ pc[resp.job_id] = "train"

\* The upload of the staged model of job j returned no id.
ModelUploadFailed(j) ==
    \E i \in UploadCalls(j, ModelPath(j)) : calls[j][i].ret = None

\* C17: when the model upload fails, the request is answered 500, the job is
\* UPLOAD_FAILED, the metadata upload and the Ledger are not called, and
\* model_cid, model_info_cid and fvm_tx_hash stay None.
C17_ModelUploadFailure ==
    /\ [][\A j \in DOMAIN training_jobs :
             (calls'[j] # calls[j] /\ ModelUploadFailed(j)')
                => /\ resp'.op = "upload"
                   /\ resp'.job_id = j
                   /\ resp'.code = 500]_vars
    /\ [](\A j \in DOMAIN training_jobs :
             ModelUploadFailed(j) =>
                /\ training_jobs[j].status = "UPLOAD_FAILED"
                /\ UploadCalls(j, InfoPath(j)) = {}
                /\ RegisterCalls(j) = {}
                /\ training_jobs[j].model_cid = None
                /\ training_jobs[j].model_info_cid = None
                /\ training_jobs[j].fvm_tx_hash = None)

\* The request answered 500 after the model upload failed.
C17_Witness ==
    /\ resp.op = "upload"
    /\ resp.code = 500
    /\ ModelUploadFailed(resp.job_id)
    /\ training_jobs[resp.job_id].status = "UPLOAD_FAILED"

\* C18: a status query, whether answered 404, 401 or 200, leaves every record
\* of the store as it was and adds or removes none.
C18_StatusQueryReadOnly ==
    [][\A j \in JobIds : \A u \in Users :
          Answers("status", j, u) => training_jobs' = training_jobs]_vars

\* A status query answered with the snapshot of a job that is ready for upload.
C18_Witness ==
    /\ resp.op = "status"
    /\ resp.code = 200
    /\ resp.body.status = "TRAINING_COMPLETE"
    /\ resp.body = training_jobs[resp.job_id]

\* C19: the snapshot a status query returns holds no staged path: it is the
\* same for two jobs that differ only in temp_model_path and temp_info_path.
C19_StatusHidesStagedPaths ==
    (resp.op = "status" /\ resp.code = 200) =>
        /\ resp.body.temp_model_path = None
        /\ resp.body.temp_info_path = None

KwargValue(kwargs, f) == kwargs[CHOOSE i \in DOMAIN kwargs : kwargs[i][1] = f][2]

Named(kwargs, f) == \E i \in DOMAIN kwargs : kwargs[i][1] = f

\* C21: update_job_status called with a job_id that is not in the store
\* returns without raising, adds no record and leaves every record as it was.
C21_UpdateUnknownJob ==
    [][\A id \in UpdateIds :
          (Answers("update_job_status", id, None) /\ id \notin DOMAIN training_jobs)
             => /\ resp'.body.detail = "returned"
                /\ training_jobs' = training_jobs]_vars

\* An update of an unknown job returned while the store holds a record.
C21_Witness ==
    /\ resp.op = "update_job_status"
    /\ resp.job_id \notin DOMAIN training_jobs
    /\ training_jobs # <<>>

\* C22: update_job_status on a stored job sets status and message to the
\* arguments and updated_at to the clock, sets every other field the keyword
\* arguments name to the value given and leaves every other field, and every
\* other record, as it was; a name that is no field of the record adds no
\* field and the call returns without raising.
C22_UpdateIsPartial ==
    [][\A j \in DOMAIN training_jobs :
          Answers("update_job_status", j, None) =>
              LET args == resp'.body.args
                  old == training_jobs[j]
                  new == training_jobs'[j]
              IN  /\ resp'.body.detail = "returned"
                  /\ DOMAIN training_jobs' = DOMAIN training_jobs
                  /\ \A k \in DOMAIN training_jobs \ {j} : training_jobs'[k] = training_jobs[k]
                  /\ DOMAIN new = DOMAIN old
                  /\ new.status = args[1]
                  /\ new.message = args[2]
                  /\ new.updated_at = now
                  /\ \A f \in DOMAIN old \ {"status", "message", "updated_at"} :
                        new[f] = IF Named(args[3], f) THEN KwargValue(args[3], f) ELSE old[f]]_vars

\* An update naming an unknown attribute and a result field returned, on a
\* record last updated at an earlier clock reading.
C22_Witness ==
    /\ resp.op = "update_job_status"
    /\ JobExists(resp.job_id)
    /\ Named(resp.body.args[3], "progress")
    /\ Named(resp.body.args[3], "accuracy")
    /\ training_jobs[resp.job_id].accuracy = Accuracy
    /\ training_jobs[resp.job_id].updated_at > training_jobs[resp.job_id].created_at
    /\ Len(training_jobs) > 1

\* The calls of the last predict request that fetch from the Blob Store or
\* look up the Ledger.
LoadCalls ==
    {i \in DOMAIN inference_calls :
        inference_calls[i].fn \in {"download_file", "get_provenance_by_cid"}}

\* The last predict request had its payment accepted: the first call it made
\* is a payment verification for service type INFERENCE with payer u that
\* returned true.
InferencePaid(u) ==
    /\ inference_calls # <<>>
    /\ inference_calls[1] = Call("verify_payment", <<u, "INFERENCE">>, "true")

\* C23: a predict request fetches from the Blob Store, looks up the Ledger or
\* changes the inference cache only after a payment verification for service
\* type INFERENCE with the caller as payer returned true; a request whose
\* payment is not accepted or whose fee is not configured is answered 402 or
\* 500, makes no such call and leaves the cache as it was.
C23_InferencePaymentFirst ==
    [][\A u \in Users :
          Answers("predict", 0, u) =>
              /\ (resp'.code \notin {402, 500} \/ LoadCalls' # {}
                    \/ model_cache' # model_cache \/ model_info_cache' # model_info_cache)
                   => InferencePaid(u)'
              /\ ~InferencePaid(u)'
                   => /\ resp'.code \in {402, 500}
                      /\ LoadCalls' = {}
                      /\ model_cache' = model_cache
                      /\ model_info_cache' = model_info_cache
              /\ inference_fee = 0 => (resp'.code = 500 /\ inference_calls' = <<>>)]_vars

\* A request answered 402 after the verifier returned false, with a model in
\* the cache.
C23_Witness ==
    /\ resp.op = "predict"
    /\ resp.code = 402
    /\ inference_calls = <<Call("verify_payment", <<resp.user, "INFERENCE">>, "false")>>
    /\ model_cache # {}
    /\ model_info_cache # {}

\* C24: job_id, owner_address and dataset_cid of a record are those of the
\* start-training request that created it (the ones handed to its task) and
\* no step of the task, of an endpoint or of the store changes them.
C24_IdentityImmutable ==
    /\ [][\A j \in DOMAIN training_jobs' :
             IF j \in DOMAIN training_jobs
             THEN /\ training_jobs'[j].job_id = training_jobs[j].job_id
                  /\ training_jobs'[j].owner_address = training_jobs[j].owner_address
                  /\ training_jobs'[j].dataset_cid = training_jobs[j].dataset_cid
             ELSE /\ resp'.op = "start"
                  /\ training_jobs'[j].job_id = j
                  /\ training_jobs'[j].owner_address = resp'.user
                  /\ training_jobs'[j].dataset_cid \in DatasetCids]_vars
    /\ [](\A j \in DOMAIN training_jobs :
             pc[j] # "none" =>
                /\ training_jobs[j].owner_address = task_args[j].owner_address
                /\ training_jobs[j].dataset_cid = task_args[j].dataset_cid)

\* A job published on the request of the owner's address in lower case still
\* holds the address of the start request.
C24_Witness ==
    /\ resp.op = "upload"
    /\ resp.code = 200
    /\ resp.user = "0xabc1"
    /\ training_jobs[resp.job_id].owner_address = "0xAbC1"
    /\ training_jobs[resp.job_id].dataset_cid = task_args[resp.job_id].dataset_cid
    /\ training_jobs[resp.job_id].status = "COMPLETED"

\* The dataset download of job j returned False.
DownloadFailed(j) == \E i \in CallsOf(j, "download_file") : calls[j][i].ret # "ok"

\* The Trainer of job j returned no model, or the task raised after its call.
TrainFailed(j) == \E i \in CallsOf(j, "train_model_on_dataset") : calls[j][i].ret # "ok"

\* C25: after a failed download the job is DOWNLOADING until the FAILED report
\* and FAILED after it, and the Trainer is not called; after a failed training
\* it is TRAINING until the FAILED report and FAILED after it, with no staged
\* path recorded; once the task has reported the failure no step changes the
\* record, and the verifier, the download and the Trainer are each called at
\* most once for a job.
C25_StageFailureIsTerminal ==
    /\ [](\A j \in DOMAIN training_jobs :
             /\ DownloadFailed(j) =>
                    /\ training_jobs[j].status \in {"DOWNLOADING", "FAILED"}
                    /\ CallsOf(j, "train_model_on_dataset") = {}
             /\ TrainFailed(j) => training_jobs[j].status \in {"TRAINING", "FAILED"}
             /\ (DownloadFailed(j) \/ TrainFailed(j)) =>
                    /\ training_jobs[j].temp_model_path = None
                    /\ training_jobs[j].temp_info_path = None
                    /\ WorkerEnded(j) => training_jobs[j].status = "FAILED"
             /\ Cardinality(CallsOf(j, "verify_payment")) <= 1
             /\ Cardinality(CallsOf(j, "download_file")) <= 1
             /\ Cardinality(CallsOf(j, "train_model_on_dataset")) <= 1)
    /\ [][\A j \in DOMAIN training_jobs :
             ((DownloadFailed(j) \/ TrainFailed(j)) /\ WorkerEnded(j))
                => training_jobs'[j] = training_jobs[j]]_vars

\* The task ended after the Trainer failed, and a later publish request was
\* refused.
C25_Witness ==
    /\ resp.op = "upload"
    /\ resp.code = 409
    /\ TrainFailed(resp.job_id)
    /\ pc[resp.job_id] = "done"
    /\ training_jobs[resp.job_id].status = "FAILED"
    /\ training_jobs[resp.job_id].message = "Model training process failed."

\* The statuses the task gives a job, and the one it starts in.
WorkerStatuses ==
    {"PENDING", "VERIFYING_PAYMENT", "DOWNLOADING", "TRAINING", "TRAINING_COMPLETE"}

\* C26: a job that is PENDING, VERIFYING_PAYMENT, DOWNLOADING, TRAINING or
\* TRAINING_COMPLETE holds no model_cid, no model_info_cid and no fvm_tx_hash,
\* and only a step of the upload endpoint uploads to the Blob Store, registers
\* with the Ledger or sets one of the three.
C26_WorkerNeverPublishes ==
    /\ [](\A j \in DOMAIN training_jobs :
             training_jobs[j].status \in WorkerStatuses =>
                /\ training_jobs[j].model_cid = None
                /\ training_jobs[j].model_info_cid = None
                /\ training_jobs[j].fvm_tx_hash = None)
    /\ [][\A j \in DOMAIN training_jobs :
             (resp' = resp \/ resp'.op # "upload") =>
                /\ CallsOf(j, "upload_file")' = CallsOf(j, "upload_file")
                /\ RegisterCalls(j)' = RegisterCalls(j)
                /\ training_jobs'[j].model_cid = training_jobs[j].model_cid
                /\ training_jobs'[j].model_info_cid = training_jobs[j].model_info_cid
                /\ training_jobs'[j].fvm_tx_hash = training_jobs[j].fvm_tx_hash]_vars

\* The task ended with the job ready for upload and nothing published.
C26_Witness ==
    \E j \in DOMAIN training_jobs :
        /\ pc[j] = "done"
        /\ training_jobs[j].status = "TRAINING_COMPLETE"
        /\ training_jobs[j].accuracy = Accuracy
        /\ HasTempPaths(training_jobs[j])
        /\ training_jobs[j].model_cid = None
        /\ calls[j][Len(calls[j])].fn = "train_model_on_dataset"

\* C27: every registration made for a job comes after a model upload and,
\* after that, a metadata upload that both returned an id, and its arguments
\* are the job's owner_address, "Model", the job's dataset_cid and the two ids
\* those uploads returned, model id first.
C27_RegistrationAfterUploads ==
    \A j \in DOMAIN training_jobs : \A r \in RegisterCalls(j) :
        \E m \in UploadCalls(j, ModelPath(j)) : \E i \in UploadCalls(j, InfoPath(j)) :
            /\ m < i
            /\ i < r
            /\ calls[j][m].ret \notin {None, "raise"}
            /\ calls[j][i].ret \notin {None, "raise"}
            /\ calls[j][r].args[1] = training_jobs[j].owner_address
            /\ calls[j][r].args[2] = "Model"
            /\ calls[j][r].args[4] = training_jobs[j].dataset_cid
            /\ calls[j][r].args[5] = calls[j][m].ret
            /\ calls[j][r].args[6] = calls[j][i].ret

\* A registration made on the request of the owner's address in lower case,
\* after both uploads.
C27_Witness ==
    /\ resp.op = "upload"
    /\ resp.code = 200
    /\ resp.user = "0xabc1"
    /\ RegisterCalls(resp.job_id) # {}
    /\ resp.body.fvm_tx_hash # None

\* C28: a COMPLETED job holds a model_cid and a model_info_cid, and a job that
\* holds an fvm_tx_hash is COMPLETED.
C28_CompletedHasIds ==
    \A j \in DOMAIN training_jobs :
        /\ training_jobs[j].status = "COMPLETED" =>
              /\ training_jobs[j].model_cid # None
              /\ training_jobs[j].model_info_cid # None
        /\ training_jobs[j].fvm_tx_hash # None => training_jobs[j].status = "COMPLETED"

\* A status query of the owner shows the published job COMPLETED with both
\* ids and the transaction hash.
C28_Witness ==
    /\ resp.op = "status"
    /\ resp.code = 200
    /\ resp.body.status = "COMPLETED"
    /\ resp.body.model_cid = Cid(ModelPath(resp.job_id))
    /\ resp.body.model_info_cid = Cid(InfoPath(resp.job_id))
    /\ resp.body.fvm_tx_hash # None

\* The Trainer of job j returned a model and the task reported
\* TRAINING_COMPLETE.
TrainSucceeded(j) == \E i \in CallsOf(j, "train_model_on_dataset") : calls[j][i].ret = "ok"

UnexpectedRaise(j) ==
    \E i \in CallsOf(j, "upload_file") \cup RegisterCalls(j) : calls[j][i].ret = "raise"

\* C30: when a step of a publish raises an exception that is no upload
\* failure, the request is answered 500 and the job is FAILED with the ids the
\* uploads before that step returned on its record and no fvm_tx_hash.
C30_UnexpectedPublishError ==
    /\ [][\A j \in DOMAIN training_jobs :
             (calls'[j] # calls[j] /\ UnexpectedRaise(j)')
                => /\ resp'.op = "upload"
                   /\ resp'.job_id = j
                   /\ resp'.code = 500]_vars
    /\ [](\A j \in DOMAIN training_jobs :
             UnexpectedRaise(j) =>
                /\ training_jobs[j].status = "FAILED"
                /\ training_jobs[j].fvm_tx_hash = None
                /\ ModelUploadOk(j) => training_jobs[j].model_cid = Cid(ModelPath(j))
                /\ ~ModelUploadOk(j) => training_jobs[j].model_cid = None
                /\ InfoUploadOk(j) => training_jobs[j].model_info_cid = Cid(InfoPath(j))
                /\ ~InfoUploadOk(j) => training_jobs[j].model_info_cid = None)

\* The registration raised after both uploads: the request got 500 and the
\* FAILED job holds both ids.
C30_Witness ==
    /\ resp.op = "upload"
    /\ resp.code = 500
    /\ \E i \in RegisterCalls(resp.job_id) : calls[resp.job_id][i].ret = "raise"
    /\ training_jobs[resp.job_id].status = "FAILED"
    /\ training_jobs[resp.job_id].model_cid = Cid(ModelPath(resp.job_id))
    /\ training_jobs[resp.job_id].model_info_cid = Cid(InfoPath(resp.job_id))

\* The upload endpoint has written to the record of job j: the final update of
\* a publish, or the update made when a staged file is missing.
PublishWrote(j) ==
    \/ PublishRan(j)
    \/ training_jobs[j].message = "Required temporary files for upload were missing."

\* C31: once the upload endpoint has written to a job's record, only the
\* upload endpoint changes that record: no step of the task, in any
\* interleaving, changes the status, the ids or the cleared paths it wrote.
C31_NoWorkerWriteAfterPublish ==
    [][\A j \in DOMAIN training_jobs :
          (PublishWrote(j) /\ (resp' = resp \/ resp'.op # "upload"))
             => training_jobs'[j] = training_jobs[j]]_vars

\* A publish ran to its end while the task had not yet returned from the
\* update_job_status call that reported TRAINING_COMPLETE.
C31_Witness ==
    \E j \in DOMAIN training_jobs :
        /\ PublishRan(j)
        /\ pending[j] # <<>>
        /\ training_jobs[j].status = "COMPLETED"

\* The decision of the status endpoint: it answers anything but 401 for a
\* stored job.
StatusAccepts(j, u) ==
    /\ Answers("status", j, u)
    /\ resp'.code # 401

\* The decision of the upload endpoint on the same record.
UploadAccepts(j, u) == IsJobOwner(training_jobs[j], u)

\* C33: for every stored job and every principal, the status endpoint accepts
\* the principal as owner exactly when the upload endpoint accepts it,
\* principals that differ from the stored owner only in letter case included.
C33_SameOwnershipDecision ==
    [][\A j \in DOMAIN training_jobs : \A u \in Users :
          Answers("status", j, u) => (StatusAccepts(j, u) <=> UploadAccepts(j, u))]_vars

\* The message passed to the update_job_status call the task of job j is
\* executing: the value its second attribute write assigns.
SuppliedMessage(j) == pending[j][2][2]

\* C32: a step that changes a job's status leaves the record with the message
\* supplied with that change (none when none was supplied); the message of the
\* earlier status does not stay on the record.
C32_MessageFollowsStatus ==
    [][\A j \in DOMAIN training_jobs :
          training_jobs'[j].status # training_jobs[j].status =>
             IF pending[j] # <<>>
             THEN training_jobs'[j].message = SuppliedMessage(j)
             ELSE \/ training_jobs'[j].message = None
                  \/ training_jobs'[j].message # training_jobs[j].message]_vars

\* The step is one of job j: a step of its task, or an endpoint answering a
\* request that names j.
StepFor(j) ==
    \/ pc'[j] # pc[j]
    \/ pending'[j] # pending[j]
    \/ (resp = NoResp /\ resp' # NoResp /\ resp'.job_id = j)

\* C34: a step of one job (a step of its task, a status or publish request for
\* it, the creation of it) changes no field of the record of any other job.
C34_JobsIsolated ==
    [][\A j \in JobSlots : \A k \in DOMAIN training_jobs :
          (StepFor(j) /\ k # j) => training_jobs'[k] = training_jobs[k]]_vars

\* Two jobs ran side by side: the first was published while the task of the
\* second was in the middle of an update, and both records hold their own
\* results.
C34_Witness ==
    /\ Len(training_jobs) = 2
    /\ training_jobs[1].status = "COMPLETED"
    /\ pending[2] # <<>>
    /\ training_jobs[2].status = "TRAINING_COMPLETE"
    /\ training_jobs[1].job_id = 1
    /\ training_jobs[2].job_id = 2

\* The last predict request got a model together with its metadata from
\* load_model_and_info: it passed the checks of lines 154 and 161.
LoadedBoth ==
    /\ resp.op = "predict"
    /\ \/ resp.code = 200
       \/ (resp.code = 500
             /\ resp.body.detail = "Prediction failed. Check server logs for details.")

\* C35: a call of load_model_and_info that returns a model with its metadata
\* leaves both under their cache keys, no step removes a cache entry, and a
\* call that finds both entries returns them and fetches nothing from the
\* Blob Store or the Ledger; a call whose model download or deserialization
\* fails (answered 404) adds nothing to either cache.
C35_CacheServesRepeats ==
    [][/\ model_cache \subseteq model_cache'
       /\ model_info_cache \subseteq model_info_cache'
       /\ \A u \in Users : \A m \in ModelCids : \A i \in ModelInfoCids :
            (Answers("predict", 0, u) /\ resp'.model_cid = m /\ resp'.model_info_cid = i
               /\ InferencePaid(u)')
              => /\ LoadedBoth' =>
                      (m \in model_cache' /\ InfoCacheKey(m, i) \in model_info_cache')
                 /\ (m \in model_cache /\ InfoCacheKey(m, i) \in model_info_cache) =>
                      /\ LoadedBoth'
                      /\ LoadCalls' = {}
                      /\ model_cache' = model_cache
                      /\ model_info_cache' = model_info_cache
                 /\ resp'.code = 404 =>
                      /\ model_cache' = model_cache
                      /\ model_info_cache' = model_info_cache]_vars

\* A paid request for a model without model_info_cid answered from the cache:
\* it made no call but the payment verification, after an earlier request had
\* loaded the model and found its metadata through the provenance record.
C35_Witness ==
    /\ resp.op = "predict"
    /\ resp.code = 200
    /\ resp.model_cid = "QmModelA"
    /\ resp.model_info_cid = None
    /\ Len(inference_calls) = 1
    /\ inference_calls[1].fn = "verify_payment"
    /\ "QmModelA" \in model_info_cache

\* C36: no nonce gets more than one token, however the verify requests that
\* carry it interleave; a request answered 200 consumed its nonce, which is
\* then out of the store; and a request whose nonce is not in the store when
\* it is looked up or consumed (never issued, already consumed, cleaned up) or
\* is expired is answered 401.
C36_NonceSingleUse ==
    /\ [](\A n \in DOMAIN issued : issued[n] <= 1)
    /\ [][\A t \in VerifyThreads :
            LET r == verify_reqs[t]
                q == verify_reqs'[t]
            IN  /\ (q.code = 200 /\ r.code # 200) =>
                      /\ r.pc = "issue"
                      /\ r.nonce \notin DOMAIN nonce_store'
                      /\ issued'[r.nonce] = issued[r.nonce] + 1
                /\ (r.pc = "consume" /\ q.pc = "issue") =>
                      (r.nonce \in DOMAIN nonce_store /\ r.nonce \notin DOMAIN nonce_store')
                /\ (r.pc \in {"lookup", "consume"} /\ q.pc # r.pc
                      /\ r.nonce \notin DOMAIN nonce_store) =>
                      (q.pc = "done" /\ q.code = 401)
                /\ (r.pc = "lookup" /\ q.pc # r.pc /\ r.nonce \in DOMAIN nonce_store
                      /\ Expired(nonce_store[r.nonce], now)) => q.pc = "expire"
                /\ (r.pc = "expire" /\ q.pc # r.pc) =>
                      (q.pc = "done" /\ q.code = 401 /\ r.nonce \notin DOMAIN nonce_store')]_vars

\* Two verify requests carried the same nonce and both found it in the store:
\* one was given the token, the other found the nonce gone when it came to
\* consume it and was answered 401.
C36_Witness ==
    \E t1 \in VerifyThreads, t2 \in VerifyThreads :
        /\ t1 # t2
        /\ verify_reqs[t1].nonce = verify_reqs[t2].nonce
        /\ verify_reqs[t1].code = 200
        /\ verify_reqs[t2].code = 401
        /\ verify_reqs[t2].detail = "Nonce already used."

====
